---- MODULE Spec2Model ----
(***************************************************************************)
(* A model of the AI payroll agent of src/.venv/main.py: PayrollBot with   *)
(* its three registered handlers (start_command, get_summary,              *)
(* handle_photo), the SQLite table work_log and the update loop started by *)
(* app.run_polling().                                                      *)
(*                                                                         *)
(* Text.  A model response is a sequence of tokens.  The two words the     *)
(* prompt asks for, SUM_HOURS and NOT_FOUND, and the two words float()     *)
(* reads as non-finite values, inf and nan, are one token each; every      *)
(* other token is one character.  "x" stands for any character that is     *)
(* neither a digit, a sign, a separator nor white space.                   *)
(*                                                                         *)
(* Numbers.  A Python float is modelled as a decimal m * 10^(-e) kept in   *)
(* normal form, or as one of inf, -inf, nan.  Binary rounding of the       *)
(* decimal is not modelled.                                                *)
(*                                                                         *)
(* Environment.  Sending a message to the user (reply_text, edit_text)     *)
(* succeeds; the file download, the image decoder, the model call, the     *)
(* reading of response.text, float() and the INSERT may each fail.         *)
(***************************************************************************)
EXTENDS Integers, Sequences, FiniteSets, TLC

VARIABLES
    work_log,   \* the rows of table work_log, oldest first
    queue,      \* updates fetched by polling and not yet dispatched
    cur,        \* the update whose handler is running, or NoUpdate
    pc,         \* where that handler stands
    status,     \* the text of the status message of the running handle_photo
    pending,    \* the text the handler is about to send
    edits,      \* edit_text calls made by the running handle_photo
    before,     \* work_log when the running handler was dispatched
    reply       \* the last message sent by reply_text

vars == <<work_log, queue, cur, pc, status, pending, edits, before, reply>>

(***************************** bounds **************************************)
MaxLog == 2
MaxQueue == 1
Users == {1, 2}
\* the updates with a registered handler, and "other": every other message,
\* among them the /add and /reset of the welcome text, which have no handler
Registered == {"start", "summary", "photo"}
Kinds == Registered \cup {"other"}

(***************************** floats **************************************)
RECURSIVE Pow10(_)
Pow10(n) == IF n = 0 THEN 1 ELSE 10 * Pow10(n - 1)

RECURSIVE Norm(_, _)
\* the normal form of m * 10^(-e): no trailing zero in the fraction
Norm(m, e) == IF e > 0 /\ m % 10 = 0 THEN Norm(m \div 10, e - 1)
              ELSE [k |-> "fin", m |-> m, e |-> e]

Fin(m, e) == Norm(m, e)
Inf(neg) == [k |-> "inf", neg |-> neg]
NaN == [k |-> "nan"]
Zero == Fin(0, 0)

IsFinite(x) == x.k = "fin"
IsNaN(x) == x.k = "nan"
IsNegative(x) == \/ x.k = "fin" /\ x.m < 0
                 \/ x.k = "inf" /\ x.neg

FNeg(x) == CASE x.k = "fin" -> Fin(-x.m, x.e)
             [] x.k = "inf" -> Inf(~x.neg)
             [] OTHER -> NaN

Max(a, b) == IF a >= b THEN a ELSE b

\* IEEE addition on the decimal model
FAdd(x, y) ==
    CASE IsNaN(x) \/ IsNaN(y) -> NaN
      [] x.k = "inf" /\ y.k = "inf" -> IF x.neg = y.neg THEN x ELSE NaN
      [] x.k = "inf" -> x
      [] y.k = "inf" -> y
      [] OTHER -> LET e == Max(x.e, y.e)
                  IN Fin(x.m * Pow10(e - x.e) + y.m * Pow10(e - y.e), e)

\* IEEE multiplication on the decimal model
FMul(x, y) ==
    CASE IsNaN(x) \/ IsNaN(y) -> NaN
      [] x.k = "inf" \/ y.k = "inf" ->
            IF (x.k = "fin" /\ x.m = 0) \/ (y.k = "fin" /\ y.m = 0) THEN NaN
            ELSE Inf(IsNegative(x) # IsNegative(y))
      [] OTHER -> Fin(x.m * y.m, x.e + y.e)

\* HOURLY_RATE: Final = 31.7
HOURLY_RATE == Fin(317, 1)

\* int(x * 100) / 100: the digits after the second decimal are cut off
Fmt2Truncate(x) ==
    IF ~IsFinite(x) \/ x.e <= 2 THEN {x}
    ELSE {Fin(x.m \div Pow10(x.e - 2), 2)}

\* format(x, ".2f"): what x may be shown as with two decimals.  The nearer
\* neighbour is shown.  When the decimal x lies halfway between two
\* neighbours, the binary product it stands for lies a little to one side,
\* which the decimal does not tell: either neighbour may be shown.
Fmt2(x) ==
    IF ~IsFinite(x) \/ x.e <= 2 THEN {x}
    ELSE LET d == Pow10(x.e - 2)
             q == x.m \div d
             r == x.m % d
         IN IF 2 * r > d THEN {Fin(q + 1, 2)}
            ELSE IF 2 * r < d THEN {Fin(q, 2)}
            ELSE {Fin(q, 2), Fin(q + 1, 2)}

(****************************** text ***************************************)
MARKER == "SUM_HOURS"
NOTFOUND == "NOT_FOUND"
Digits == {"0", "1", "2", "3", "4", "5", "6", "7", "8", "9"}
DigitVal(d) == CASE d = "0" -> 0 [] d = "1" -> 1 [] d = "2" -> 2 [] d = "3" -> 3
                 [] d = "4" -> 4 [] d = "5" -> 5 [] d = "6" -> 6 [] d = "7" -> 7
                 [] d = "8" -> 8 [] d = "9" -> 9

\* the first position of s at or after i that holds c, or Len(s) + 1
RECURSIVE Find(_, _, _)
Find(s, c, i) == IF i > Len(s) THEN Len(s) + 1
                 ELSE IF s[i] = c THEN i ELSE Find(s, c, i + 1)

\* str.strip(): white space removed at both ends
RECURSIVE LStrip(_)
LStrip(s) == IF s # <<>> /\ Head(s) = " " THEN LStrip(Tail(s)) ELSE s
RECURSIVE RStrip(_)
RStrip(s) == IF s # <<>> /\ s[Len(s)] = " " THEN RStrip(SubSeq(s, 1, Len(s) - 1)) ELSE s
Strip(s) == RStrip(LStrip(s))

\* str.replace(',', '.'): every comma becomes a period
Replace(s) == [i \in 1..Len(s) |-> IF s[i] = "," THEN "." ELSE s[i]]

\* "SUM_HOURS:" in result
HasMarker(s) == \E i \in 1..(Len(s) - 1) : s[i] = MARKER /\ s[i + 1] = ":"

\* result.split(":")[1]: what stands between the first colon of the text and
\* the second one (or the end of the text)
SplitField1(s) ==
    LET a == Find(s, ":", 1)
        b == Find(s, ":", a + 1)
    IN SubSeq(s, a + 1, b - 1)

\* the value of a string of digits with at most one period, as float() reads it
RECURSIVE Mantissa(_, _)
Mantissa(s, acc) == IF s = <<>> THEN acc
                    ELSE IF Head(s) = "." THEN Mantissa(Tail(s), acc)
                    ELSE Mantissa(Tail(s), 10 * acc + DigitVal(Head(s)))

IsNumeral(s) ==
    /\ \A i \in 1..Len(s) : s[i] \in Digits \cup {"."}
    /\ \E i \in 1..Len(s) : s[i] \in Digits
    /\ Cardinality({i \in 1..Len(s) : s[i] = "."}) <= 1

NumeralValue(s) ==
    LET p == Find(s, ".", 1)
    IN Fin(Mantissa(s, 0), IF p > Len(s) THEN 0 ELSE Len(s) - p)

ValueError == [k |-> "ValueError"]

\* float(s): white space at both ends is dropped, then an optional sign, then
\* a decimal numeral or one of the words inf, nan; anything else raises
\* ValueError.  (Exponents and digit-group underscores need characters the
\* token alphabet does not have.)
PyFloat(s) ==
    LET t == Strip(s)
        neg == t # <<>> /\ Head(t) = "-"
        u == IF t # <<>> /\ Head(t) \in {"-", "+"} THEN Tail(t) ELSE t
    IN IF u = <<"inf">> THEN Inf(neg)
       ELSE IF u = <<"nan">> THEN NaN
       ELSE IF IsNumeral(u)
            THEN (IF neg THEN FNeg(NumeralValue(u)) ELSE NumeralValue(u))
       ELSE ValueError

\* float(result.split(":")[1].strip().replace(',', '.'))
ParseHours(result) == PyFloat(Replace(Strip(SplitField1(result))))

(***************************** the table ***********************************)
NULL == [k |-> "null"]

\* sqlite3 binds a float NaN as NULL; every other float is stored as it is
DbBind(h) == IF IsNaN(h) THEN NULL ELSE h

\* a row of work_log; its date column, date('now'), is written and never read
\* by the program, and is left out
RowFixedUser(user_id, hours) == [user_id |-> 1, hours |-> DbBind(hours)]

Row(user_id, hours) == [user_id |-> user_id, hours |-> DbBind(hours)]

\* an INSERT that raises after its row has reached the table
InsertFailedNoRollback(log, row) == Append(log, row)

\* the commit of "with sqlite3.connect(...) as conn" when the INSERT raises:
\* the transaction is rolled back and the table is as it was
InsertFailed(log, row) == log

\* INSERT OR REPLACE keyed by the user: the user's earlier rows are replaced
LogHoursUpsert(log, user_id, hours, ok) ==
    IF ok THEN [exc |-> "none",
                log |-> Append(SelectSeq(log, LAMBDA row : row.user_id # user_id),
                               Row(user_id, hours))]
    ELSE [exc |-> "StorageError", log |-> log]

\* _log_hours: INSERT INTO work_log VALUES (?, date('now'), ?); ok is whether
\* the database carries the statement out
LogHours(log, user_id, hours, ok) ==
    IF ok THEN [exc |-> "none", log |-> Append(log, Row(user_id, hours))]
    ELSE [exc |-> "StorageError", log |-> InsertFailed(log, Row(user_id, hours))]

\* SUM(hours) over the rows of log from position i on that belong to user_id
\* and are not NULL, added to acc; n tells whether any such row was met
RECURSIVE SumFrom(_, _, _, _, _)
SumFrom(log, user_id, i, acc, n) ==
    IF i > Len(log) THEN [sum |-> acc, any |-> n]
    ELSE IF log[i].user_id = user_id /\ log[i].hours # NULL
         THEN SumFrom(log, user_id, i + 1, FAdd(acc, log[i].hours), TRUE)
         ELSE SumFrom(log, user_id, i + 1, acc, n)

\* SELECT SUM(hours) FROM work_log WHERE user_id = ?: NULL when no row
\* counts, and NULL when the sum is NaN
SqlSum(log, user_id) ==
    LET r == SumFrom(log, user_id, 1, Zero, FALSE)
    IN IF ~r.any \/ IsNaN(r.sum) THEN NULL ELSE r.sum

\* cursor.fetchone()[0] or 0.0
TotalHours(log, user_id) ==
    LET v == SqlSum(log, user_id)
    IN IF v = NULL \/ v = Zero THEN Zero ELSE v

(**************************** the handlers *********************************)
NoUpdate == [user |-> 0, kind |-> "none"]
NoMessage == [kind |-> "none"]
Analyzing == [kind |-> "analyzing"]
Warning == [kind |-> "warning"]
Logged(hours, earnings) == [kind |-> "logged", hours |-> hours,
                            earnings |-> earnings]
ErrorMessage(exc) == [kind |-> "error", detail |-> exc]
Welcome == [kind |-> "welcome"]
Summary(total_hours, pay) == [kind |-> "summary", hours |-> total_hours,
                              pay |-> pay]

\* except ValueError: a handler that expects only float() to fail
CaughtValueErrorOnly(exc) == exc = "ValueError"

\* except Exception: every exception the try block raises is an Exception
Caught(exc) == TRUE

\* lines 88-93 of handle_photo, from the text of the response to the message
\* to send: the new table, the exception raised (or "none") and the messages
\* that may be sent
TryBody(text, user_id, log, dbok) ==
    LET result == Strip(text)
    IN IF HasMarker(result)
       THEN LET hours == ParseHours(result)
            IN IF hours = ValueError
               THEN [exc |-> "ValueError", log |-> log, msgs |-> {NoMessage}]
               ELSE LET w == LogHours(log, user_id, hours, dbok)
                        total_value == FMul(hours, HOURLY_RATE)
                    IN [exc |-> w.exc, log |-> w.log,
                        msgs |-> IF w.exc = "none"
                                 THEN {Logged(hours, e) : e \in Fmt2(total_value)}
                                 ELSE {NoMessage}]
       ELSE [exc |-> "none", log |-> log, msgs |-> {Warning}]

\* where a handler goes when its try block raises exc
Raise(exc) == IF Caught(exc) THEN "except" ELSE "escaped"

(************************** model responses ********************************)
\* what may stand before the answer: nothing, the not-found word, a label
\* with its colon
Prefixes == { <<>>, <<NOTFOUND, " ">>, <<"x", ":", " ">> }

Bodies == { <<MARKER, ":", " ", "7", ",", "5">>,
            <<MARKER, ":", " ", "-", "3">>,
            <<MARKER, ":", " ", "nan">>,
            <<MARKER, ":", " ", "x">>,
            <<MARKER, ":", " ", "7", ".", "5", ":", "x">>,
            <<MARKER, ":", " ", NOTFOUND>>,
            <<MARKER, " ", "7">>,
            <<NOTFOUND>>,
            <<"x">>,
            <<>> }

\* response.text: the texts the model may return; the last one has a number
\* between two colons before the marker
Responses == { p \o b : p \in Prefixes, b \in Bodies }
             \cup { <<"x", ":", "7", ",", "5", ":", " ", MARKER, ":", " ", "7">> }

(****************************** actions ************************************)
Init ==
    /\ work_log = <<>>
    /\ queue = <<>>
    /\ cur = NoUpdate
    /\ pc = "idle"
    /\ status = NoMessage
    /\ pending = NoMessage
    /\ edits = 0
    /\ before = <<>>
    /\ reply = NoMessage

\* a user sends /start, /summary, a photo or another message
Arrive(u, k) ==
    /\ Len(queue) < MaxQueue
    /\ queue' = Append(queue, [user |-> u, kind |-> k])
    /\ UNCHANGED <<work_log, cur, pc, status, pending, edits, before, reply>>

\* the application takes the next update and calls the handler registered for
\* it.  It does so only when the handler of the update before has returned:
\* the application is built without concurrent_updates, the handlers are
\* registered as blocking ones, and generate_content (line 87) is called, not
\* awaited, so that the one thread of the event loop runs nothing else until
\* the call is back
Dispatch ==
    /\ pc = "idle"
    /\ queue # <<>>
    /\ Head(queue).kind \in Registered
    /\ cur' = Head(queue)
    /\ queue' = Tail(queue)
    /\ pc' = Head(queue).kind
    /\ before' = work_log
    /\ UNCHANGED <<work_log, status, pending, edits, reply>>

\* an update no handler is registered for is dropped
Ignore ==
    /\ pc = "idle"
    /\ queue # <<>>
    /\ Head(queue).kind \notin Registered
    /\ queue' = Tail(queue)
    /\ UNCHANGED <<work_log, cur, pc, status, pending, edits, before, reply>>

\* start_command
StartCommand ==
    /\ pc = "start"
    /\ reply' = Welcome
    /\ pc' = "done"
    /\ UNCHANGED <<work_log, queue, cur, status, pending, edits, before>>

\* the summaries get_summary may send to user_id when the table is log
SummariesOf(log, user_id) ==
    LET total_hours == TotalHours(log, user_id)
        total_pay == FMul(total_hours, HOURLY_RATE)
    IN {Summary(total_hours, p) : p \in Fmt2(total_pay)}

\* get_summary; dbok is whether the database answers the SELECT
GetSummary(dbok) ==
    /\ pc = "summary"
    /\ IF dbok
       THEN /\ reply' \in SummariesOf(work_log, cur.user)
            /\ pc' = "done"
       ELSE /\ reply' = reply
            /\ pc' = "escaped"
    /\ UNCHANGED <<work_log, queue, cur, status, pending, edits, before>>

\* handle_photo, line 72: the status message is sent
SendStatus ==
    /\ pc = "photo"
    /\ status' = Analyzing
    /\ pc' = "download"
    /\ UNCHANGED <<work_log, queue, cur, pending, edits, before, reply>>

\* handle_photo, lines 76-78: the photo is fetched and opened
Download(ok) ==
    /\ pc = "download"
    /\ IF ok
       THEN pc' = "call" /\ pending' = pending
       ELSE pc' = Raise("DownloadError") /\ pending' = ErrorMessage("DownloadError")
    /\ UNCHANGED <<work_log, queue, cur, status, edits, before, reply>>

\* handle_photo, line 87: generate_content is entered (self.model is None when
\* no model could be set up, and the call raises at once)
CallModel(ok) ==
    /\ pc = "call"
    /\ IF ok
       THEN pc' = "calling" /\ pending' = pending
       ELSE pc' = Raise("AttributeError") /\ pending' = ErrorMessage("AttributeError")
    /\ UNCHANGED <<work_log, queue, cur, status, edits, before, reply>>

\* generate_content or response.text raises
ModelRaises ==
    /\ pc = "calling"
    /\ pc' = Raise("ModelError")
    /\ pending' = ErrorMessage("ModelError")
    /\ UNCHANGED <<work_log, queue, cur, status, edits, before, reply>>

\* generate_content returns text; lines 88-93 run
ModelReturns(text, dbok) ==
    /\ pc = "calling"
    /\ LET r == TryBody(text, cur.user, work_log, dbok)
       IN /\ Len(r.log) <= MaxLog
          /\ work_log' = r.log
          /\ IF r.exc = "none"
             THEN pc' = "edit" /\ pending' \in r.msgs
             ELSE pc' = Raise(r.exc) /\ pending' = ErrorMessage(r.exc)
    /\ UNCHANGED <<queue, cur, status, edits, before, reply>>

\* handle_photo, lines 94 and 96: the status message gets the result
EditResult ==
    /\ pc = "edit"
    /\ status' = pending
    /\ edits' = edits + 1
    /\ pc' = "done"
    /\ UNCHANGED <<work_log, queue, cur, pending, before, reply>>

\* handle_photo, line 98: the status message gets the error
EditError ==
    /\ pc = "except"
    /\ status' = pending
    /\ edits' = edits + 1
    /\ pc' = "done"
    /\ UNCHANGED <<work_log, queue, cur, pending, before, reply>>

\* the handler returns (or its exception reaches the application, which logs
\* it); the application is free for the next update
Return ==
    /\ pc \in {"done", "escaped"}
    /\ pc' = "idle"
    /\ cur' = NoUpdate
    /\ status' = NoMessage
    /\ pending' = NoMessage
    /\ edits' = 0
    /\ before' = <<>>
    /\ reply' = NoMessage
    /\ UNCHANGED <<work_log, queue>>

Next ==
    \/ \E u \in Users, k \in Kinds : Arrive(u, k)
    \/ Dispatch
    \/ Ignore
    \/ StartCommand
    \/ \E dbok \in BOOLEAN : GetSummary(dbok)
    \/ SendStatus
    \/ \E ok \in BOOLEAN : Download(ok)
    \/ \E ok \in BOOLEAN : CallModel(ok)
    \/ ModelRaises
    \/ \E text \in Responses, dbok \in BOOLEAN : ModelReturns(text, dbok)
    \/ EditResult
    \/ EditError
    \/ Return

Spec == Init /\ [][Next]_vars

(***************************************************************************)
(* The parse contract the claims speak of (spec.md, 4.1 ResponseParser):   *)
(* NotFound when the not-found token is present; Malformed when the marker *)
(* is absent, when what follows the marker's separator is not a number, or *)
(* when that number is negative or not finite; Found(hours) otherwise.     *)
(***************************************************************************)
HasNotFound(s) == \E i \in 1..Len(s) : s[i] = NOTFOUND

\* what follows the separator of the first marker of s
AfterMarker(s) ==
    LET i == CHOOSE j \in 1..(Len(s) - 1) :
                 /\ s[j] = MARKER /\ s[j + 1] = ":"
                 /\ \A h \in 1..(j - 1) : ~(s[h] = MARKER /\ s[h + 1] = ":")
    IN SubSeq(s, i + 2, Len(s))

Classify(s) ==
    IF HasNotFound(s) THEN [tag |-> "NotFound"]
    ELSE IF ~HasMarker(s) THEN [tag |-> "Malformed", reason |-> "no recognizable marker"]
    ELSE LET v == PyFloat(Replace(Strip(AfterMarker(s))))
         IN IF v = ValueError
            THEN [tag |-> "Malformed", reason |-> "non-numeric value"]
            ELSE IF IsNegative(v) \/ ~IsFinite(v)
            THEN [tag |-> "Malformed", reason |-> "out-of-range value"]
            ELSE [tag |-> "Found", hours |-> v]

\* the running handler is handle_photo and has sent its last message
PhotoDone == cur.kind = "photo" /\ pc = "done"

(******************************* claims ************************************)

\* C1: a row is written only when the response parses as Found: on a response
\* that is NotFound or Malformed, work_log is the same before and after.
C1_WriteOnlyWhenFound ==
    [][\A text \in Responses, dbok \in BOOLEAN :
          (ModelReturns(text, dbok) /\ Classify(text).tag # "Found")
              => work_log' = work_log]_vars

\* C2: every row of work_log has hours that are finite and >= 0.
C2_HoursNonNegative ==
    \A i \in 1..Len(work_log) :
        IsFinite(work_log[i].hours) /\ ~IsNegative(work_log[i].hours)

C4_OneWriteAndLogged ==
    [][\A text \in Responses, dbok \in BOOLEAN :
          ModelReturns(text, dbok) =>
              /\ \/ work_log' = work_log
                 \/ /\ Len(work_log') = Len(work_log) + 1
                    /\ SubSeq(work_log', 1, Len(work_log)) = work_log
              /\ (Classify(text).tag = "Found" /\ dbok) =>
                    /\ work_log' = Append(work_log, Row(cur.user, Classify(text).hours))
                    /\ pending'.kind = "logged"
                    /\ pending'.hours = Classify(text).hours]_vars

\* C5: when the marker and its separator are followed by a valid non-negative
\* number, with a period or a comma, the hours read are that number.
C5_FoundHours ==
    [][\A text \in Responses :
          (ModelReturns(text, TRUE) /\ Classify(text).tag = "Found")
              => (pending'.kind = "logged"
                  /\ pending'.hours = Classify(text).hours)]_vars

\* C6: a response that holds NOT_FOUND, with or without the marker, gives the
\* not-found message and writes no row.
C6_NotFoundToken ==
    [][\A text \in Responses, dbok \in BOOLEAN :
          (ModelReturns(text, dbok) /\ HasNotFound(text))
              => (work_log' = work_log /\ pending' = Warning)]_vars

\* C7: a response with neither the marker nor NOT_FOUND is rejected, with a
\* message other than the one a NOT_FOUND response gets.
C7_RejectedIsNotNotFound ==
    [][\A text \in Responses, dbok \in BOOLEAN :
          (ModelReturns(text, dbok) /\ ~HasMarker(text) /\ ~HasNotFound(text))
              => /\ work_log' = work_log
                 /\ pending' \notin TryBody(<<NOTFOUND>>, cur.user, work_log, dbok).msgs]_vars

\* C8: an append of h hours for a user raises that user's sum by h:
\* sum before + h = sum after (and the sum of no rows is 0).
C8_SumRoundTrip ==
    [][\A text \in Responses :
          (ModelReturns(text, TRUE) /\ pending'.kind = "logged")
              => TotalHours(work_log', cur.user)
                     = FAdd(TotalHours(work_log, cur.user), pending'.hours)]_vars

\* C8 on finite hours: the round trip holds whenever the hours appended are
\* not NaN.
C8_FiniteRoundTrip ==
    [][\A text \in Responses :
          (ModelReturns(text, TRUE) /\ pending'.kind = "logged"
                                     /\ ~IsNaN(pending'.hours))
              => TotalHours(work_log', cur.user)
                     = FAdd(TotalHours(work_log, cur.user), pending'.hours)]_vars

C10_OtherUserProceeds ==
    (pc = "calling" /\ queue # <<>> /\ Head(queue).user # cur.user)
        => ENABLED Dispatch

\* C11: photo invocations of one user that overlap lose no append: when an
\* invocation reports Logged, the user's sum has grown since its dispatch by
\* the hours it reports, and a summary reads whole rows only: what it shows
\* is the sum of the table as it stood at its dispatch.
C11_NoLostAppend ==
    /\ (PhotoDone /\ status.kind = "logged") =>
           TotalHours(work_log, cur.user)
               = FAdd(TotalHours(before, cur.user), status.hours)
    /\ (cur.kind = "summary" /\ pc = "done") =>
           (work_log = before /\ reply.hours = TotalHours(before, cur.user))

\* C11 on rows: the invocation that reports Logged has added its one row to
\* the table of its dispatch, whatever waits in the queue; no row is lost.
C11_NoLostRow ==
    (PhotoDone /\ status.kind = "logged") =>
        work_log = Append(before, Row(cur.user, status.hours))

\* C11 on finite hours: the sum statement holds whenever the hours reported
\* are not NaN.
C11_FiniteNoLostAppend ==
    (PhotoDone /\ status.kind = "logged" /\ ~IsNaN(status.hours)) =>
        TotalHours(work_log, cur.user)
            = FAdd(TotalHours(before, cur.user), status.hours)

\* the steps the event loop itself takes: once enabled they are taken.  The
\* two ends of the model call, ModelReturns and ModelRaises, are not among
\* them: line 87 passes no timeout and nothing else bounds the call
HandlerStep ==
    \/ Dispatch
    \/ Ignore
    \/ StartCommand
    \/ \E dbok \in BOOLEAN : GetSummary(dbok)
    \/ SendStatus
    \/ \E ok \in BOOLEAN : Download(ok)
    \/ \E ok \in BOOLEAN : CallModel(ok)
    \/ EditResult
    \/ EditError
    \/ Return

FairSpec == Spec /\ WF_vars(HandlerStep)

\* C12: every photo invocation ends with an outcome, even when the model call
\* never returns (a timeout ends the call with an upstream failure).
C12_PhotoCompletes ==
    (cur.kind = "photo") ~> (cur.kind = "photo" /\ pc \in {"done", "escaped"})

\* the rows of log that belong to user_id, in order
RowsOf(log, user_id) == SelectSeq(log, LAMBDA row : row.user_id = user_id)

\* C13: work_log is append-only: whatever update is handled, /start,
\* /summary, a photo or a message without handler such as /reset, every row
\* of the table stays where it is and as it is; rows are only added at the end.
C13_AppendOnly ==
    [][/\ Len(work_log') >= Len(work_log)
       /\ SubSeq(work_log', 1, Len(work_log)) = work_log]_vars

\* C13 witness: with two rows in the table, a second photo of a user has been
\* logged behind the first.
C13_Witness ==
    /\ PhotoDone
    /\ status.kind = "logged"
    /\ Len(before) = 1
    /\ Len(work_log) = 2
    /\ before[1].user_id = cur.user

\* the largest number of hours of a row the totals are drawn from, in
\* hundredths of an hour
MaxHundredths == 1200

\* tables get_summary may find: no row, or one row of up to MaxHundredths
\* hundredths of an hour
PayLedgers ==
    {<<>>} \cup {<<Row(u, Fin(m, 2))>> : u \in Users, m \in 0..MaxHundredths}

\* the bot starts on a table of an earlier run
PayInit ==
    /\ work_log \in PayLedgers
    /\ queue = <<>>
    /\ cur = NoUpdate
    /\ pc = "idle"
    /\ status = NoMessage
    /\ pending = NoMessage
    /\ edits = 0
    /\ before = <<>>
    /\ reply = NoMessage

\* users ask for the summary only
PayNext ==
    \/ \E u \in Users : Arrive(u, "summary")
    \/ Dispatch
    \/ \E dbok \in BOOLEAN : GetSummary(dbok)
    \/ Return

PaySpec == PayInit /\ [][PayNext]_vars

\* x as a whole number of units of 10^-e
Scaled(x, e) == x.m * Pow10(e - x.e)

\* shown is a number of at most two decimals that lies no more than half a
\* hundredth from the product hours * rate
IsRoundedProduct(shown, hours, rate) ==
    LET e == Max(hours.e + rate.e, 2)
        product == hours.m * rate.m * Pow10(e - (hours.e + rate.e))
        diff == Scaled(shown, e) - product
    IN /\ IsFinite(shown)
       /\ shown.e <= 2
       /\ 2 * (IF diff < 0 THEN 0 - diff ELSE diff) <= Pow10(e - 2)

\* C14: the pay a summary reports is the total of hours times the hourly
\* rate, rounded to two decimals; for a total of 10.0 hours at 31.7 it is
\* 317.00.
C14_PayRounded ==
    (cur.kind = "summary" /\ pc = "done" /\ IsFinite(reply.hours)) =>
        /\ IsRoundedProduct(reply.pay, reply.hours, HOURLY_RATE)
        /\ reply.hours = Fin(10, 0) => reply.pay = Fin(317, 0)

\* C14 witness: a summary has reported 317.00 for the 10.0 hours of the user.
C14_Witness ==
    /\ cur.kind = "summary"
    /\ pc = "done"
    /\ reply.hours = Fin(10, 0)
    /\ reply.pay = Fin(317, 0)
    /\ Len(work_log) = 1

\* a summary has reported an amount the product had to be rounded to
C14_RoundedUp ==
    /\ cur.kind = "summary"
    /\ pc = "done"
    /\ reply.hours = Fin(1, 2)
    /\ reply.pay = Fin(32, 2)

\* C15: users are kept apart in work_log: a step that changes the table is a
\* step of a photo handler, never of /summary; it leaves the rows of every
\* other user, the total of their hours and the summary they would be sent as
\* they are, and every row it adds carries the id of the user whose photo is
\* handled.
C15_Isolation ==
    [][work_log' # work_log =>
           /\ cur.kind = "photo"
           /\ \A b \in Users \ {cur.user} :
                  /\ RowsOf(work_log', b) = RowsOf(work_log, b)
                  /\ TotalHours(work_log', b) = TotalHours(work_log, b)
                  /\ SummariesOf(work_log', b) = SummariesOf(work_log, b)
           /\ \A i \in (Len(work_log) + 1)..Len(work_log') :
                  work_log'[i].user_id = cur.user]_vars

\* C15 witness: the photo of one user has been logged into a table that
\* held a row of the other user.
C15_Witness ==
    /\ PhotoDone
    /\ status.kind = "logged"
    /\ Len(before) = 1
    /\ before[1].user_id # cur.user
    /\ Len(work_log) = 2
    /\ work_log[2].user_id = cur.user

====
